---- MODULE Spec2Model ----
(***************************************************************************)
(* A model of SmilesDrawer.Vertex (src/src/Vertex.js): the graph node of   *)
(* the molecule's spanning tree and of its full adjacency graph.           *)
(*                                                                         *)
(* JavaScript arrays and atoms are references, so the model keeps a heap   *)
(* of arrays (arr) and a heap of atoms (atoms); a vertex field that holds  *)
(* an array holds its index in arr.  Two vertices whose fields hold the    *)
(* same index share the array, and a push through one is seen through the  *)
(* other.                                                                  *)
(***************************************************************************)
EXTENDS Integers, Sequences, FiniteSets, TLC

\* ---------------------------------------------------------------- bounds
\* Vertex ids are 0..MaxId.
MaxId == 2
\* At most MaxCalls mutating calls (relation building, builder and layout
\* writes, clone) are made in one behaviour.
MaxCalls == 4
\* Edge ids are 0..MaxEdgeId.
MaxEdgeId == 0
\* At most MaxBuild mutating calls are made before the queries are asked.
MaxBuild == 3
\* At most MaxTextBuild relations are built before getTextDirection is asked.
MaxTextBuild == 2

\* ----------------------------------------------------------- vocabulary
\* JavaScript null, kept apart from every id (ids are >= 0).
Null == -1

Ids == 0 .. MaxId
EdgeIds == 0 .. MaxEdgeId
\* Values the layout engine stores in angle.
Angles == {0, 1}
\* The two vertex objects of a behaviour: the constructed one and its clone.
Objects == {"v", "c"}

VARIABLES
    vtx,      \* Objects -> the vertex object's fields
    arr,      \* the heap of arrays: a sequence of sequences
    atoms,    \* the heap of atoms: a sequence of atom records
    vertices, \* the molecule's vertex collection, as the queries read it
    last,     \* the last call made: its name, receiver, arguments, result
    hist,     \* Objects -> the relation-building calls made on the object
    calls     \* the number of mutating calls made so far

vars == <<vtx, arr, atoms, vertices, last, hist, calls>>

\* ------------------------------------------------------------- helpers
Range(s) == {s[i] : i \in 1 .. Len(s)}

RECURSIVE Count(_, _)
Count(s, x) ==
    IF s = <<>> THEN 0
    ELSE (IF Head(s) = x THEN 1 ELSE 0) + Count(Tail(s), x)

NoDup(s) == \A i, j \in 1 .. Len(s) : i # j => s[i] # s[j]

\* new SmilesDrawer.Vector2(x, y)
Vector2(x, y) == [x |-> x, y |-> y]

\* The slot of an object that has not been constructed.
NoVertex ==
    [exists |-> FALSE, id |-> Null, value |-> 0,
     position |-> Vector2(0, 0), previousPosition |-> Vector2(0, 0),
     parentVertexId |-> Null, children |-> 0, spanningTreeChildren |-> 0,
     edges |-> 0, positioned |-> FALSE, angle |-> 0, globalAngle |-> 0,
     dir |-> 1, neighbourCount |-> 0, neighbours |-> 0,
     neighbouringElements |-> 0]

\* constructor(value, x, y): the fields of a new vertex whose five arrays
\* are the heap cells base+1 .. base+5 (the caller allocates them empty).
Vertex(value, x, y, base) ==
    [exists |-> TRUE, id |-> Null, value |-> value,
     position |-> Vector2(x, y), previousPosition |-> Vector2(0, 0),
     parentVertexId |-> Null, children |-> base + 1,
     spanningTreeChildren |-> base + 2, edges |-> base + 3,
     positioned |-> FALSE, angle |-> 0, globalAngle |-> 0, dir |-> 1,
     neighbourCount |-> 0, neighbours |-> base + 4,
     neighbouringElements |-> base + 5]

\* The five empty arrays a constructor call allocates.
FreshArrays == << <<>>, <<>>, <<>>, <<>>, <<>> >>

\* Contents of the arrays of an object.
Children(o) == arr[vtx[o].children]
SpanningTreeChildren(o) == arr[vtx[o].spanningTreeChildren]
Edges(o) == arr[vtx[o].edges]
Neighbours(o) == arr[vtx[o].neighbours]
NeighbouringElements(o) == arr[vtx[o].neighbouringElements]
BondCount(o) == atoms[vtx[o].value].bondCount

NoCall == [op |-> "none", o |-> "v", arg |-> Null, res |-> Null]

\* --------------------------------------------------------------- Init
\* One vertex constructed on one atom: new Vertex(atom) with x = y = 0.
InitWith(pseudo) ==
    /\ vtx = [o \in Objects |-> IF o = "v" THEN Vertex(1, 0, 0, 0) ELSE NoVertex]
    /\ arr = FreshArrays
    /\ atoms = << [bondCount |-> 0, hasAttachedPseudoElements |-> pseudo] >>
    /\ last = NoCall
    /\ hist = [o \in Objects |-> <<>>]
    /\ calls = 0

\* A vertex collection, as far as the queries read it: vertices[i].value
\* (the atom's isDrawn and rings) and vertices[i].position.
NoCollection ==
    [i \in Ids |-> [value |-> [isDrawn |-> TRUE, rings |-> {}], position |-> Vector2(0, 0)]]

Init == InitWith(FALSE) /\ vertices = NoCollection

\* ---------------------------------------------------- relation building
\* addChild(vertexId): the writes of the method.
addChild_forgetsCount(o, vertexId) ==
    /\ vtx' = vtx
    /\ arr' = [arr EXCEPT ![vtx[o].children] = Append(@, vertexId),
                          ![vtx[o].neighbours] = Append(@, vertexId)]
    /\ atoms' = [atoms EXCEPT ![vtx[o].value].bondCount = @ + 1]

addChild_forgetsBond(o, vertexId) ==
    /\ vtx' = [vtx EXCEPT ![o].neighbourCount = @ + 1]
    /\ arr' = [arr EXCEPT ![vtx[o].children] = Append(@, vertexId),
                          ![vtx[o].neighbours] = Append(@, vertexId)]
    /\ atoms' = atoms

addChild(o, vertexId) ==
    /\ vtx' = [vtx EXCEPT ![o].neighbourCount = @ + 1]
    /\ arr' = [arr EXCEPT ![vtx[o].children] = Append(@, vertexId),
                          ![vtx[o].neighbours] = Append(@, vertexId)]
    /\ atoms' = [atoms EXCEPT ![vtx[o].value].bondCount = @ + 1]

\* setParentVertexId(parentVertexId): the writes of the method.
setParentVertexId(o, parentVertexId) ==
    /\ vtx' = [vtx EXCEPT ![o].neighbourCount = @ + 1,
                          ![o].parentVertexId = parentVertexId]
    /\ arr' = [arr EXCEPT ![vtx[o].neighbours] = Append(@, parentVertexId)]
    /\ atoms' = [atoms EXCEPT ![vtx[o].value].bondCount = @ + 1]

AddChild(o, vertexId) ==
    /\ vtx[o].exists /\ calls < MaxCalls
    /\ addChild(o, vertexId)
    /\ last' = [op |-> "addChild", o |-> o, arg |-> vertexId, res |-> Null]
    /\ hist' = [hist EXCEPT ![o] = Append(@, <<"addChild", vertexId>>)]
    /\ calls' = calls + 1
    /\ UNCHANGED vertices

SetParentVertexId(o, parentVertexId) ==
    /\ vtx[o].exists /\ calls < MaxCalls
    /\ setParentVertexId(o, parentVertexId)
    /\ last' = [op |-> "setParentVertexId", o |-> o, arg |-> parentVertexId, res |-> Null]
    /\ hist' = [hist EXCEPT ![o] = Append(@, <<"setParentVertexId", parentVertexId>>)]
    /\ calls' = calls + 1
    /\ UNCHANGED vertices

\* ------------------------------------------------------------- clone
\* SmilesDrawer.ArrayHelper.clone(array): a new array with the elements of
\* the given one (the elements are numbers).  The heap after the call; the
\* new array is its last cell.
ArrayHelper_clone(heap, ref) == Append(heap, heap[ref])

\* clone(): the heap and the fields of the clone.  The constructor call
\* allocates five arrays; the three ArrayHelper.clone calls allocate three
\* more, which replace the constructor's children, spanningTreeChildren and
\* edges.
cloneHeap(o) ==
    LET h0 == arr \o FreshArrays
        h1 == ArrayHelper_clone(h0, vtx[o].children)
        h2 == ArrayHelper_clone(h1, vtx[o].spanningTreeChildren)
    IN  ArrayHelper_clone(h2, vtx[o].edges)

cloneFields_sharesChildren(o) ==
    LET base == Len(arr)
    IN  [Vertex(vtx[o].value, vtx[o].position.x, vtx[o].position.y, base) EXCEPT
            !.id = vtx[o].id,
            !.previousPosition = Vector2(vtx[o].previousPosition.x, vtx[o].previousPosition.y),
            !.parentVertexId = vtx[o].parentVertexId,
            !.children = vtx[o].children,
            !.spanningTreeChildren = base + 7,
            !.edges = base + 8,
            !.positioned = vtx[o].positioned,
            !.angle = vtx[o].angle]

cloneFields(o) ==
    LET base == Len(arr)
    IN  [Vertex(vtx[o].value, vtx[o].position.x, vtx[o].position.y, base) EXCEPT
            !.id = vtx[o].id,
            !.previousPosition = Vector2(vtx[o].previousPosition.x, vtx[o].previousPosition.y),
            !.parentVertexId = vtx[o].parentVertexId,
            !.children = base + 6,
            !.spanningTreeChildren = base + 7,
            !.edges = base + 8,
            !.positioned = vtx[o].positioned,
            !.angle = vtx[o].angle]

\* let c = v.clone(): the clone is stored in the slot "c".
Clone ==
    /\ vtx["v"].exists /\ ~vtx["c"].exists /\ calls < MaxCalls
    /\ arr' = cloneHeap("v")
    /\ vtx' = [vtx EXCEPT !["c"] = cloneFields("v")]
    /\ last' = [op |-> "clone", o |-> "v", arg |-> Null, res |-> "c"]
    /\ calls' = calls + 1
    /\ UNCHANGED <<atoms, vertices, hist>>

\* ------------------------------------------ the builder and the layout
\* The graph builder assigns the id once.
BuilderSetId(o, i) ==
    /\ vtx[o].exists /\ vtx[o].id = Null /\ calls < MaxCalls
    /\ vtx' = [vtx EXCEPT ![o].id = i]
    /\ last' = [op |-> "setId", o |-> o, arg |-> i, res |-> Null]
    /\ calls' = calls + 1
    /\ UNCHANGED <<arr, atoms, vertices, hist>>

\* The graph builder records a child as a spanning-tree child.
BuilderPushSpanningTreeChild(o, i) ==
    /\ vtx[o].exists /\ calls < MaxCalls
    /\ i \in Range(Children(o)) /\ i \notin Range(SpanningTreeChildren(o))
    /\ arr' = [arr EXCEPT ![vtx[o].spanningTreeChildren] = Append(@, i)]
    /\ last' = [op |-> "pushSpanningTreeChild", o |-> o, arg |-> i, res |-> Null]
    /\ calls' = calls + 1
    /\ UNCHANGED <<vtx, atoms, vertices, hist>>

\* The graph builder records an incident edge.
BuilderPushEdge(o, e) ==
    /\ vtx[o].exists /\ calls < MaxCalls
    /\ e \notin Range(Edges(o))
    /\ arr' = [arr EXCEPT ![vtx[o].edges] = Append(@, e)]
    /\ last' = [op |-> "pushEdge", o |-> o, arg |-> e, res |-> Null]
    /\ calls' = calls + 1
    /\ UNCHANGED <<vtx, atoms, vertices, hist>>

\* The layout engine places the vertex: positioned becomes true and the
\* angle is stored.
LayoutPlace(o, a) ==
    /\ vtx[o].exists /\ ~vtx[o].positioned /\ calls < MaxCalls
    /\ vtx' = [vtx EXCEPT ![o].positioned = TRUE, ![o].angle = a]
    /\ last' = [op |-> "place", o |-> o, arg |-> a, res |-> Null]
    /\ calls' = calls + 1
    /\ UNCHANGED <<arr, atoms, vertices, hist>>

\* ------------------------------------------------------------ queries
\* getNeighbourCount()
getNeighbourCount(o) == vtx[o].neighbourCount

GetNeighbourCount(o) ==
    /\ vtx[o].exists
    /\ last' = [op |-> "getNeighbourCount", o |-> o, arg |-> Null, res |-> getNeighbourCount(o)]
    /\ UNCHANGED <<vtx, arr, atoms, vertices, hist, calls>>

\* getNeighbours(vertexId = null): the loop of the method, from index i on,
\* pushing onto the local array out.
RECURSIVE getNeighbours_loop(_, _, _, _)
getNeighbours_loop(nb, vertexId, i, out) ==
    IF i > Len(nb) THEN out
    ELSE getNeighbours_loop(nb, vertexId, i + 1,
            IF nb[i] # vertexId THEN Append(out, nb[i]) ELSE out)

\* The array returned: this.neighbours itself (ref is its heap cell) when no
\* id is given, a new array (ref 0: held by the caller only) otherwise.
getNeighbours(o, vertexId) ==
    IF vertexId = Null
    THEN [ref |-> vtx[o].neighbours, elems |-> Neighbours(o)]
    ELSE [ref |-> 0, elems |-> getNeighbours_loop(Neighbours(o), vertexId, 1, <<>>)]

\* isTerminal()
isTerminal_ignoresPseudoElements(o) ==
    (vtx[o].parentVertexId = Null /\ Len(Children(o)) < 2) \/ Len(Children(o)) = 0

isTerminal(o) ==
    IF atoms[vtx[o].value].hasAttachedPseudoElements
    THEN TRUE
    ELSE (vtx[o].parentVertexId = Null /\ Len(Children(o)) < 2) \/ Len(Children(o)) = 0

IsTerminal(o) ==
    /\ vtx[o].exists
    /\ last' = [op |-> "isTerminal", o |-> o, arg |-> Null, res |-> isTerminal(o)]
    /\ UNCHANGED <<vtx, arr, atoms, vertices, hist, calls>>

\* getNeighbours(vertexId): the call.  Nothing but the returned array is
\* written.
GetNeighbours_filtersInPlace(o, vertexId) ==
    /\ vtx[o].exists
    /\ arr' = [arr EXCEPT ![vtx[o].neighbours] = getNeighbours(o, vertexId).elems]
    /\ last' = [op |-> "getNeighbours", o |-> o, arg |-> vertexId,
                res |-> [ref |-> vtx[o].neighbours, elems |-> getNeighbours(o, vertexId).elems]]
    /\ UNCHANGED <<vtx, atoms, vertices, hist, calls>>

GetNeighbours(o, vertexId) ==
    /\ vtx[o].exists
    /\ last' = [op |-> "getNeighbours", o |-> o, arg |-> vertexId,
                res |-> getNeighbours(o, vertexId)]
    /\ UNCHANGED <<vtx, arr, atoms, vertices, hist, calls>>

\* isNeighbour(vertexId): the loop over children, from index i on.  The
\* method returns true or falls off its end, which yields undefined.
RECURSIVE isNeighbour_loop(_, _, _)
isNeighbour_loop(ch, vertexId, i) ==
    IF i > Len(ch) THEN "undefined"
    ELSE IF ch[i] = vertexId THEN "true"
    ELSE isNeighbour_loop(ch, vertexId, i + 1)

isNeighbour_ignoresParent(o, vertexId) ==
    isNeighbour_loop(Children(o), vertexId, 1)

isNeighbour(o, vertexId) ==
    IF vtx[o].parentVertexId = vertexId THEN "true"
    ELSE isNeighbour_loop(Children(o), vertexId, 1)

IsNeighbour(o, vertexId) ==
    /\ vtx[o].exists
    /\ last' = [op |-> "isNeighbour", o |-> o, arg |-> vertexId,
                res |-> isNeighbour(o, vertexId)]
    /\ UNCHANGED <<vtx, arr, atoms, vertices, hist, calls>>

\* JavaScript a != b for a, b each a number or null: null equals only null.
LooseNotEqual(a, b) == a # b

\* getSpanningTreeNeighbours(vertexId = null): the loop of the method, from
\* index i on.  The default makes vertexId null when no argument (or
\* undefined) is passed, so the test vertexId === undefined is never true.
RECURSIVE getSpanningTreeNeighbours_loop(_, _, _, _)
getSpanningTreeNeighbours_loop(stc, vertexId, i, out) ==
    IF i > Len(stc) THEN out
    ELSE getSpanningTreeNeighbours_loop(stc, vertexId, i + 1,
            IF LooseNotEqual(vertexId, stc[i]) THEN Append(out, stc[i]) ELSE out)

\* A variant that tests the argument for truthiness: id 0 excludes nothing.
getSpanningTreeNeighbours_truthyExclude(o, vertexId) ==
    LET x == IF vertexId = 0 THEN Null ELSE vertexId
        children == getSpanningTreeNeighbours_loop(SpanningTreeChildren(o), x, 1, <<>>)
    IN  IF vtx[o].parentVertexId # Null /\ LooseNotEqual(x, vtx[o].parentVertexId)
        THEN Append(children, vtx[o].parentVertexId)
        ELSE children

getSpanningTreeNeighbours(o, vertexId) ==
    LET children == getSpanningTreeNeighbours_loop(SpanningTreeChildren(o), vertexId, 1, <<>>)
    IN  IF LooseNotEqual(vtx[o].parentVertexId, Null)
           /\ LooseNotEqual(vertexId, vtx[o].parentVertexId)
        THEN Append(children, vtx[o].parentVertexId)
        ELSE children

GetSpanningTreeNeighbours(o, vertexId) ==
    /\ vtx[o].exists
    /\ last' = [op |-> "getSpanningTreeNeighbours", o |-> o, arg |-> vertexId,
                res |-> getSpanningTreeNeighbours(o, vertexId)]
    /\ UNCHANGED <<vtx, arr, atoms, vertices, hist, calls>>

\* SmilesDrawer.ArrayHelper.contains(array, {value: v}): v is an element.
ArrayHelper_contains(array, v) == v \in array

\* getNextInRing(vertices, ringId, previousVertexId): the loop of the
\* method over neighbours = this.getNeighbours(), from index i on.
RECURSIVE getNextInRing_loop_ignoresPrevious(_, _, _, _, _)
getNextInRing_loop_ignoresPrevious(nb, vs, ringId, previousVertexId, i) ==
    IF i > Len(nb) THEN Null
    ELSE IF ArrayHelper_contains(vs[nb[i]].value.rings, ringId)
    THEN nb[i]
    ELSE getNextInRing_loop_ignoresPrevious(nb, vs, ringId, previousVertexId, i + 1)

RECURSIVE getNextInRing_loop(_, _, _, _, _)
getNextInRing_loop(nb, vs, ringId, previousVertexId, i) ==
    IF i > Len(nb) THEN Null
    ELSE IF ArrayHelper_contains(vs[nb[i]].value.rings, ringId)
            /\ LooseNotEqual(nb[i], previousVertexId)
    THEN nb[i]
    ELSE getNextInRing_loop(nb, vs, ringId, previousVertexId, i + 1)

getNextInRing_ignoresPrevious(o, vs, ringId, previousVertexId) ==
    getNextInRing_loop_ignoresPrevious(getNeighbours(o, Null).elems, vs, ringId,
                                       previousVertexId, 1)

getNextInRing(o, vs, ringId, previousVertexId) ==
    getNextInRing_loop(getNeighbours(o, Null).elems, vs, ringId, previousVertexId, 1)

GetNextInRing(o, ringId, previousVertexId) ==
    /\ vtx[o].exists
    /\ last' = [op |-> "getNextInRing", o |-> o, arg |-> <<ringId, previousVertexId>>,
                res |-> getNextInRing(o, vertices, ringId, previousVertexId)]
    /\ UNCHANGED <<vtx, arr, atoms, vertices, hist, calls>>

\* ------------------------------------------------- angle and direction
\* Angles are counted in quarter turns (units of 90 degrees, pi/2 radians);
\* the positions of the model lie on the two axes, so every angle read is a
\* whole number of quarter turns in -1 .. 2, as atan2 ranges over (-pi, pi].

\* SmilesDrawer.Vector2.subtract(a, b)
Vector2_subtract(a, b) == Vector2(a.x - b.x, a.y - b.y)

\* Vector2.angle(): atan2(y, x) of a vector on an axis; atan2(0, 0) is 0.
Vector2_angle(u) ==
    IF u.y = 0 THEN (IF u.x >= 0 THEN 0 ELSE 2)
    ELSE IF u.y > 0 THEN 1 ELSE -1

\* getAngle(referenceVector): the angle of position - referenceVector.
getAngle(o, referenceVector) ==
    Vector2_angle(Vector2_subtract(vtx[o].position, referenceVector))

\* getDrawnNeighbours(vertices): the loop of the method, from index i on.
RECURSIVE getDrawnNeighbours_loop(_, _, _, _)
getDrawnNeighbours_loop(nb, vs, i, out) ==
    IF i > Len(nb) THEN out
    ELSE getDrawnNeighbours_loop(nb, vs, i + 1,
            IF vs[nb[i]].value.isDrawn THEN Append(out, nb[i]) ELSE out)

getDrawnNeighbours_all(o, vs) == Neighbours(o)

getDrawnNeighbours(o, vs) == getDrawnNeighbours_loop(Neighbours(o), vs, 1, <<>>)

\* cos and sin of a whole number of quarter turns.
Cos(q) == CASE q = 0 -> 1 [] q = 2 -> -1 [] OTHER -> 0
Sin(q) == CASE q = 1 -> 1 [] q = -1 -> -1 [] OTHER -> 0

\* The sums meanAngle accumulates, from index i on.
RECURSIVE SumSin(_, _)
SumSin(angles, i) ==
    IF i > Len(angles) THEN 0 ELSE Sin(angles[i]) + SumSin(angles, i + 1)

RECURSIVE SumCos(_, _)
SumCos(angles, i) ==
    IF i > Len(angles) THEN 0 ELSE Cos(angles[i]) + SumCos(angles, i + 1)

\* Math.round(atan2(s, c) / halfPi), a number of quarter turns, for the
\* sums s of sines and c of cosines (Math.round rounds a tie upward).  The
\* sums are computed in floating point: where the exact angle lies on the
\* border of two quarter-turn sectors either sector may come out, and where
\* the exact sums cancel to (0, 0) the rounding noise decides, so any
\* sector may.
NearestQuarterTurns(s, c) ==
    IF s = 0 /\ c = 0 THEN -2 .. 2
    ELSE IF s = c /\ c > 0 THEN {0, 1}
    ELSE IF s = -c /\ s > 0 THEN {1, 2}
    ELSE IF s = c /\ c < 0 THEN {-2, -1}
    ELSE IF s = -c /\ s < 0 THEN {-1, 0}
    ELSE IF c > 0 /\ -c < s /\ s < c THEN {0}
    ELSE IF s > 0 /\ -s < c /\ c < s THEN {1}
    ELSE IF s < 0 /\ s < c /\ c < -s THEN {-1}
    ELSE IF s >= 0 THEN {2} ELSE {-2}

\* MathHelper.meanAngle(angles), the circular mean atan2(sum of sines / n,
\* sum of cosines / n), already divided by halfPi and rounded: the quarter
\* turns q it may round to, or NaN for no angles (0 / 0).
MathHelper_meanAngle(angles) ==
    IF Len(angles) = 0 THEN {[nan |-> TRUE, q |-> 0]}
    ELSE {[nan |-> FALSE, q |-> k] :
            k \in NearestQuarterTurns(SumSin(angles, 1), SumCos(angles, 1))}

\* Math.round(k * halfPi): 1.5708 rounds to 2, 3.1416 to 3, -1.5708 to -2,
\* -3.1416 to -3, and NaN stays NaN.  (The second argument of Math.round is
\* ignored.)
RoundOfQuarterTurns(a) ==
    IF a.nan THEN a
    ELSE [nan |-> FALSE,
          q |-> CASE a.q = 0 -> 0 [] a.q = 1 -> 2 [] a.q = 2 -> 3
                  [] a.q = -1 -> -2 [] a.q = -2 -> -3]

\* The if chain of getTextDirection on the rounded textAngle (NaN equals
\* nothing).
DirectionOf(textAngle) ==
    IF ~textAngle.nan /\ textAngle.q = 2 THEN "down"
    ELSE IF ~textAngle.nan /\ textAngle.q = -2 THEN "up"
    ELSE IF ~textAngle.nan /\ textAngle.q = 0 THEN "right"
    ELSE IF ~textAngle.nan /\ (textAngle.q = 3 \/ textAngle.q = -3) THEN "left"
    ELSE "down"

\* getTextDirection(vertices): the directions the call may return.
getTextDirection(o, vs) ==
    LET neighbours == getDrawnNeighbours(o, vs)
        angles == [i \in 1 .. Len(neighbours) |-> getAngle(o, vs[neighbours[i]].position)]
    IN  {DirectionOf(RoundOfQuarterTurns(a)) : a \in MathHelper_meanAngle(angles)}

GetTextDirection(o) ==
    /\ vtx[o].exists
    /\ \E d \in getTextDirection(o, vertices) :
          last' = [op |-> "getTextDirection", o |-> o, arg |-> Null, res |-> d]
    /\ UNCHANGED <<vtx, arr, atoms, vertices, hist, calls>>

\* ------------------------------------------------------- specification
Next ==
    \/ \E o \in Objects, i \in Ids : AddChild(o, i)
    \/ \E o \in Objects, i \in Ids : SetParentVertexId(o, i)
    \/ Clone
    \/ \E o \in Objects, i \in Ids : BuilderSetId(o, i)
    \/ \E o \in Objects, i \in Ids : BuilderPushSpanningTreeChild(o, i)
    \/ \E o \in Objects, e \in EdgeIds : BuilderPushEdge(o, e)
    \/ \E o \in Objects, a \in Angles : LayoutPlace(o, a)
    \/ \E o \in Objects : GetNeighbourCount(o)

Spec == Init /\ [][Next]_vars

\* The structural and adjacency queries, asked of vertices under
\* construction and of their clones; the atom may carry pseudo elements.
InitQuery == (\E pseudo \in BOOLEAN : InitWith(pseudo)) /\ vertices = NoCollection

IdOrNull == Ids \cup {Null}

NextQuery ==
    \/ \E o \in Objects, i \in Ids : calls < MaxBuild /\ AddChild(o, i)
    \/ \E o \in Objects, i \in Ids : calls < MaxBuild /\ SetParentVertexId(o, i)
    \/ calls < MaxBuild /\ Clone
    \/ \E o \in Objects, i \in Ids : calls < MaxBuild /\ BuilderPushSpanningTreeChild(o, i)
    \/ \E o \in Objects : IsTerminal(o)
    \/ \E o \in Objects, x \in IdOrNull : GetNeighbours(o, x)
    \/ \E o \in Objects, i \in Ids : IsNeighbour(o, i)
    \/ \E o \in Objects, x \in IdOrNull : GetSpanningTreeNeighbours(o, x)

SpecQuery == InitQuery /\ [][NextQuery]_vars

\* Ring walking: the atoms of the collection are in ring 1 or in no ring,
\* and the next vertex of ring 1 or of ring 2 is asked for.
RingIds == {1, 2}
RingCollections ==
    [Ids -> {[value |-> [isDrawn |-> TRUE, rings |-> r], position |-> Vector2(0, 0)] :
                r \in {{}, {1}}}]

InitRing == InitWith(FALSE) /\ vertices \in RingCollections

NextRing ==
    \/ \E i \in Ids : calls < MaxBuild /\ AddChild("v", i)
    \/ \E i \in Ids : calls < MaxBuild /\ SetParentVertexId("v", i)
    \/ \E r \in RingIds, prev \in IdOrNull : GetNextInRing("v", r, prev)

SpecRing == InitRing /\ [][NextRing]_vars

\* Label placement: the vertex is at the origin; every other vertex of the
\* collection is drawn and one step east, south, west or north of it (y
\* grows downward on the canvas), or is not drawn and one step east.
AxisPositions == {Vector2(1, 0), Vector2(0, 1), Vector2(-1, 0), Vector2(0, -1)}
TextCollections ==
    [Ids -> {[value |-> [isDrawn |-> TRUE, rings |-> {}], position |-> q] : q \in AxisPositions}
            \cup {[value |-> [isDrawn |-> FALSE, rings |-> {}], position |-> Vector2(1, 0)]}]

InitText == InitWith(FALSE) /\ vertices \in TextCollections

NextText ==
    \/ \E i \in Ids : calls < MaxTextBuild /\ AddChild("v", i)
    \/ \E i \in Ids : calls < MaxTextBuild /\ SetParentVertexId("v", i)
    \/ GetTextDirection("v")

SpecText == InitText /\ [][NextText]_vars

\* ----------------------------------------------------------- the claims
\* The ids passed to the relation-building calls made on o, in call order.
HistIds(o) == [i \in 1 .. Len(hist[o]) |-> hist[o][i][2]]

\* The step just taken was a mutating call (queries leave calls alone).
Mutated == calls' = calls + 1
RelationOps == {"addChild", "setParentVertexId"}

\* C1: for every vertex, after any sequence of addChild and
\* setParentVertexId calls (repeated ids and repeated setParentVertexId calls
\* included), neighbourCount equals the length of neighbours, and
\* getNeighbourCount() returns that length.
C1_CountIsLength ==
    /\ \A o \in Objects : vtx[o].exists => vtx[o].neighbourCount = Len(Neighbours(o))
    /\ last.op = "getNeighbourCount" => last.res = Len(Neighbours(last.o))

\* getNeighbourCount() has answered 3 for a vertex that was given the same
\* id twice and a parent twice.
C1_Witness ==
    /\ last.op = "getNeighbourCount" /\ last.o = "v" /\ last.res = 3
    /\ ~NoDup(Neighbours("v"))
    /\ Count(hist["v"], <<"setParentVertexId", 0>>) + Count(hist["v"], <<"setParentVertexId", 1>>) = 2

\* C2, as stated: after calls with pairwise distinct ids (re-parenting
\* included), neighbours holds exactly the current parentVertexId (when not
\* null) and every id of children, each once and in call order, and no
\* other id.
C2_NeighboursAreParentAndChildren ==
    NoDup(HistIds("v")) =>
        LET nb == Neighbours("v")
            parent == IF vtx["v"].parentVertexId = Null THEN {} ELSE {vtx["v"].parentVertexId}
        IN  /\ Range(nb) = parent \cup Range(Children("v"))
            /\ NoDup(nb)
            /\ \A i, j \in 1 .. Len(nb) : i < j =>
                   \E a, b \in 1 .. Len(hist["v"]) :
                       a < b /\ HistIds("v")[a] = nb[i] /\ HistIds("v")[b] = nb[j]

\* C3: every addChild(v) or setParentVertexId(p) call increases
\* value.bondCount by exactly 1 and neighbourCount by exactly 1; after
\* addChild(v), getNeighbours() contains v and v is the last element of
\* children; and while the atom (bondCount 0 at construction) is held by the
\* one vertex, value.bondCount equals neighbourCount.
C3_Step ==
    /\ \A o \in Objects : (Mutated /\ last'.op \in RelationOps /\ last'.o = o) =>
          /\ BondCount(o)' = BondCount(o) + 1
          /\ vtx'[o].neighbourCount = vtx[o].neighbourCount + 1
    /\ \A o \in Objects, x \in Ids :
          (Mutated /\ last'.op = "addChild" /\ last'.o = o /\ last'.arg = x) =>
              /\ x \in Range(getNeighbours(o, Null).elems)'
              /\ Len(Children(o)') > 0
              /\ Children(o)'[Len(Children(o)')] = x
    /\ ~vtx'["c"].exists => BondCount("v")' = vtx'["v"].neighbourCount

C3_BondCountFollowsRelations == [][C3_Step]_vars

\* Both a parent and a child have been added, the child last, and no clone
\* shares the atom.
C3_Witness ==
    /\ last.op = "addChild" /\ last.o = "v" /\ ~vtx["c"].exists
    /\ vtx["v"].parentVertexId # Null
    /\ BondCount("v") = 3

\* C4: clone() returns a vertex whose id, parentVertexId, positioned and
\* angle equal the original's, whose value is the same atom, whose children,
\* spanningTreeChildren and edges have the original's contents, and whose
\* neighbours, neighbourCount and neighbouringElements are at the
\* constructor's defaults; clone() leaves the original's fields and
\* value.bondCount unchanged; and a later mutating call on the clone or on
\* the original leaves the other's children, spanningTreeChildren and edges
\* unchanged.
Other(o) == IF o = "v" THEN "c" ELSE "v"

C4_Step ==
    /\ (Mutated /\ last'.op = "clone") =>
          /\ vtx'["c"].exists
          /\ vtx'["c"].id = vtx["v"].id
          /\ vtx'["c"].parentVertexId = vtx["v"].parentVertexId
          /\ vtx'["c"].positioned = vtx["v"].positioned
          /\ vtx'["c"].angle = vtx["v"].angle
          /\ vtx'["c"].value = vtx["v"].value
          /\ Children("c")' = Children("v")
          /\ SpanningTreeChildren("c")' = SpanningTreeChildren("v")
          /\ Edges("c")' = Edges("v")
          /\ Neighbours("c")' = <<>>
          /\ vtx'["c"].neighbourCount = 0
          /\ NeighbouringElements("c")' = <<>>
          /\ vtx'["v"] = vtx["v"]
          /\ Children("v")' = Children("v")
          /\ SpanningTreeChildren("v")' = SpanningTreeChildren("v")
          /\ Edges("v")' = Edges("v")
          /\ Neighbours("v")' = Neighbours("v")
          /\ NeighbouringElements("v")' = NeighbouringElements("v")
          /\ atoms' = atoms
    /\ \A o \in Objects :
          (Mutated /\ last'.op # "clone" /\ last'.o = o /\ vtx[Other(o)].exists) =>
              /\ Children(Other(o))' = Children(Other(o))
              /\ SpanningTreeChildren(Other(o))' = SpanningTreeChildren(Other(o))
              /\ Edges(Other(o))' = Edges(Other(o))

C4_CloneCopiesAndDetaches == [][C4_Step]_vars

\* A vertex with a child that is a spanning-tree child was cloned, and the
\* clone was then given a second child the original does not have.
C4_Witness ==
    /\ last.op = "addChild" /\ last.o = "c"
    /\ Len(Children("v")) = 1 /\ Len(Children("c")) = 2
    /\ SpanningTreeChildren("c") = SpanningTreeChildren("v")
    /\ Len(SpanningTreeChildren("c")) = 1
    /\ Neighbours("c") = <<last.arg>>

\* s without the elements equal to x, in order.
Without(s, x) == SelectSeq(s, LAMBDA e : e # x)

C8_Step ==
    \A o \in Objects : (last'.op = "getNeighbours" /\ last'.o = o) =>
        /\ last'.arg # Null => last'.res.elems = Without(Neighbours(o), last'.arg)
        /\ last'.arg = Null => last'.res.elems = Neighbours(o)
        /\ Neighbours(o)' = Neighbours(o)
        /\ vtx' = vtx

C8_GetNeighboursFilters == [][C8_Step]_vars

\* An id that occurs twice among three neighbours was excluded: one id is
\* returned and the three neighbours are still there.
C8_Witness ==
    /\ last.op = "getNeighbours" /\ last.arg # Null
    /\ Count(Neighbours(last.o), last.arg) = 2
    /\ Len(Neighbours(last.o)) = 3 /\ vtx[last.o].neighbourCount = 3
    /\ Len(last.res.elems) = 1

\* C10, as stated: for every vertex reachable by addChild,
\* setParentVertexId and clone, and every id, isNeighbour(id) is true exactly
\* when id is an element of getNeighbours().
C10_ViewsAgree ==
    last.op = "isNeighbour" =>
        (last.res = "true" <=> last.arg \in Range(getNeighbours(last.o, Null).elems))

\* The ids that were the parent of o and have been overwritten by a later
\* setParentVertexId call.
FormerParents(o) ==
    {hist[o][i][2] : i \in {j \in 1 .. Len(hist[o]) :
        /\ hist[o][j][1] = "setParentVertexId"
        /\ \E k \in (j + 1) .. Len(hist[o]) : hist[o][k][1] = "setParentVertexId"}}

\* C10, amended: for the constructed vertex (not a clone), isNeighbour(id)
\* true implies that id is an element of getNeighbours(); and for every
\* vertex, an element id of getNeighbours() has isNeighbour(id) true or is a
\* parent that a later setParentVertexId call has overwritten.
C10_ViewsAgreeAmended ==
    last.op = "isNeighbour" =>
        /\ (last.o = "v" /\ last.res = "true") =>
               last.arg \in Range(getNeighbours(last.o, Null).elems)
        /\ last.arg \in Range(getNeighbours(last.o, Null).elems) =>
               (last.res = "true" \/ last.arg \in FormerParents(last.o))

\* isNeighbour has answered true for a child of the constructed vertex that
\* also has a parent.
C10_Witness ==
    /\ last.op = "isNeighbour" /\ last.o = "v" /\ last.res = "true"
    /\ last.arg \in Range(Children("v"))
    /\ vtx["v"].parentVertexId # Null
    /\ last.arg \in Range(getNeighbours("v", Null).elems)

\* C5: getNextInRing(vertices, ringId, previousVertexId) returns the first
\* id, in neighbours order, that differs from previousVertexId and whose
\* atom has ringId in its rings, and null when no neighbour qualifies; for
\* neighbours [A, B, C] with only B and C in the ring and previousVertexId =
\* B it returns C; the id returned is never previousVertexId and is always
\* an element of neighbours.
C5_NextInRing ==
    last.op = "getNextInRing" =>
        LET nb == Neighbours(last.o)
            ringId == last.arg[1]
            prev == last.arg[2]
            qualifies == {i \in 1 .. Len(nb) :
                            nb[i] # prev /\ ringId \in vertices[nb[i]].value.rings}
        IN  /\ qualifies = {} => last.res = Null
            /\ qualifies # {} =>
                   \E i \in qualifies : /\ \A j \in qualifies : i <= j
                                        /\ last.res = nb[i]
            /\ last.res # Null => (last.res # prev /\ last.res \in Range(nb))
            /\ ( /\ Len(nb) = 3 /\ NoDup(nb) /\ prev = nb[2]
                  /\ ringId \notin vertices[nb[1]].value.rings
                  /\ ringId \in vertices[nb[2]].value.rings
                  /\ ringId \in vertices[nb[3]].value.rings ) => last.res = nb[3]

\* The example of the claim: three distinct neighbours, the second and the
\* third in the ring, the second given as the previous one, the third
\* returned.
C5_Witness ==
    /\ last.op = "getNextInRing" /\ last.arg[1] = 1
    /\ Len(Neighbours("v")) = 3 /\ NoDup(Neighbours("v"))
    /\ vertices[Neighbours("v")[1]].value.rings = {}
    /\ vertices[Neighbours("v")[2]].value.rings = {1}
    /\ vertices[Neighbours("v")[3]].value.rings = {1}
    /\ last.arg[2] = Neighbours("v")[2]
    /\ last.res = Neighbours("v")[3]

Directions == {"down", "up", "right", "left"}

\* The drawn neighbours of o in the collection vs, in neighbours order.
Drawn(o, vs) == SelectSeq(Neighbours(o), LAMBDA n : vs[n].value.isDrawn)

\* The angles, in quarter turns, of the directions from o to its drawn
\* neighbours (TowardAngles) and from its drawn neighbours to o
\* (AwayAngles).
TowardAngles(o) ==
    {Vector2_angle(Vector2_subtract(vertices[n].position, vtx[o].position)) :
        n \in Range(Drawn(o, vertices))}
AwayAngles(o) ==
    {Vector2_angle(Vector2_subtract(vtx[o].position, vertices[n].position)) :
        n \in Range(Drawn(o, vertices))}

\* C9, as stated: getTextDirection returns one of the four directions; the
\* angle averaged is the angle toward the drawn neighbours, and neighbours at
\* angle 0 degrees give right, at 180 degrees left, at 90 degrees up or down.
C9_TextDirectionToward ==
    last.op = "getTextDirection" =>
        /\ last.res \in Directions
        /\ TowardAngles(last.o) = {0} => last.res = "right"
        /\ TowardAngles(last.o) = {2} => last.res = "left"
        /\ (TowardAngles(last.o) = {1} \/ TowardAngles(last.o) = {-1}) =>
               last.res \in {"up", "down"}

\* The collection with every vertex that is not drawn moved to q.
MoveUndrawn(vs, q) ==
    [i \in DOMAIN vs |-> IF vs[i].value.isDrawn THEN vs[i] ELSE [vs[i] EXCEPT !.position = q]]

\* C9, amended: getTextDirection returns one of the four directions; the
\* angle averaged is that of the vector from each drawn neighbour to the
\* vertex (away from the neighbour, y growing downward): neighbours at such
\* an angle of 0 degrees give right, of 180 degrees left, of 90 degrees
\* down and of -90 degrees up; each of the four directions is returned for
\* some placement of drawn neighbours; and where the neighbours that are
\* not drawn lie does not change the result.
C9_TextDirectionAway ==
    last.op = "getTextDirection" =>
        /\ last.res \in Directions
        /\ AwayAngles(last.o) = {0} => last.res = "right"
        /\ AwayAngles(last.o) = {2} => last.res = "left"
        /\ AwayAngles(last.o) = {1} => last.res = "down"
        /\ AwayAngles(last.o) = {-1} => last.res = "up"
        /\ Drawn(last.o, vertices) = <<>> => last.res = "down"
        /\ \A q \in AxisPositions :
               /\ getTextDirection(last.o, MoveUndrawn(vertices, q))
                     = getTextDirection(last.o, vertices)
               /\ last.res \in getTextDirection(last.o, MoveUndrawn(vertices, q))
        /\ hist[last.o] = <<<<"addChild", 0>>>> =>
               \A d \in Directions :
                   \E vs \in TextCollections : getTextDirection(last.o, vs) = {d}

\* A drawn neighbour east of the vertex and one that is not drawn: the
\* label goes left.
C9_Witness ==
    /\ last.op = "getTextDirection" /\ last.res = "left"
    /\ Len(Neighbours("v")) = 2 /\ Len(Drawn("v", vertices)) = 1
    /\ AwayAngles("v") = {2} /\ TowardAngles("v") = {0}

====
